---- MODULE Spec2Model ----
(***************************************************************************)
(* get_sca_sia_policies_aws.py: one run of main() is a straight line       *)
(* secret load -> token exchange -> SCA GET -> SIA GET -> report.  The     *)
(* model follows main() statement group by statement group, records every  *)
(* external call and every printed line, and starts the script again up to *)
(* MaxRuns times (each start is a fresh process).                          *)
(***************************************************************************)
EXTENDS Integers, Sequences, FiniteSets, TLC

\* ------------------------------------------------------------------ bounds
MaxRuns == 2     \* how many times the script is started
MaxHits == 1     \* longest hits / results collection of a response
MaxTotal == 1    \* largest declared total of a response

\* ------------------------------------------------------- JSON / Python values
\* A decoded JSON value is a tagged record.  A dict keeps every key it may
\* hold; the value Absent marks a key the dict does not have.
Absent == [t |-> "absent"]
None == [t |-> "none"]
JInt(n) == [t |-> "int", v |-> n]
JStr(s) == [t |-> "str", s |-> s]
JObj(d) == [t |-> "obj", d |-> d]
JArr(a) == [t |-> "arr", a |-> a]

\* The exception that ended a run, NoExc while none was raised.
NoExc == [type |-> "none", arg |-> ""]
Exc(type, arg) == [type |-> type, arg |-> arg]

Digit(n) ==
    CASE n = 0 -> "0" [] n = 1 -> "1" [] n = 2 -> "2" [] n = 3 -> "3"
      [] n = 4 -> "4" [] n = 5 -> "5" [] n = 6 -> "6" [] n = 7 -> "7"
      [] n = 8 -> "8" [] OTHER -> "9"

RECURSIVE IntStr(_)
IntStr(n) ==
    IF n < 0 THEN "-" \o IntStr(0 - n)
    ELSE IF n < 10 THEN Digit(n)
    ELSE IntStr(n \div 10) \o Digit(n % 10)

\* What an f-string replacement field prints for a value: str(v).
Str(v) ==
    CASE v.t = "none" -> "None"
      [] v.t = "int" -> IntStr(v.v)
      [] v.t = "str" -> v.s
      [] OTHER -> "?"

\* dict.get(key): the value, None for a key the dict does not have.
Get(d, key) == IF d[key] = Absent THEN None ELSE d[key]

\* A variant of GetDefault: the default is dropped, as dict.get(key) would.
GetDefaultIgnored(d, key, default) == IF d[key] = Absent THEN None ELSE d[key]

\* dict.get(key, default)
GetDefault(d, key, default) == IF d[key] = Absent THEN default ELSE d[key]

\* "=" * 60
Rule == "============================================================"

\* A decoded dict with none of the keys the reporter reads: metadata = {}.
EmptyMetadata ==
    [name |-> Absent, description |-> Absent, status |-> Absent, policyId |-> Absent]

EmptyStatus == [status |-> Absent]

\* What the parser of a response body yields when the text is not JSON.
NotJson == [t |-> "notjson"]

\* A local of main() that no statement has bound yet.
Unbound == [t |-> "unbound"]

\* The check mark U+2713 the script prints, in ASCII.
Tick == "[U+2713]"

\* ------------------------------------------------------------ the reporter
\* A variant of ScaPolicyLines: the status is tested for truth, not for 1.
ScaPolicyLinesTruthy(policy) ==
    << "\n  Name:        " \o Str(Get(policy, "name")),
       "  Description: " \o Str(Get(policy, "description")),
       "  Status:      " \o
           (IF Get(policy, "status") \in { None, JInt(0), JStr("") }
            THEN "Inactive" ELSE "Active"),
       "  Policy ID:   " \o Str(Get(policy, "policyId")) >>

ScaPolicyLines(policy) ==
    << "\n  Name:        " \o Str(Get(policy, "name")),
       "  Description: " \o Str(Get(policy, "description")),
       "  Status:      " \o (IF Get(policy, "status") = JInt(1) THEN "Active" ELSE "Inactive"),
       "  Policy ID:   " \o Str(Get(policy, "policyId")) >>

RECURSIVE ScaHitsLines(_)
ScaHitsLines(hits) ==
    IF hits = <<>> THEN <<>>
    ELSE ScaPolicyLines(Head(hits)) \o ScaHitsLines(Tail(hits))

\* display_sca_policies: the lines printed, and the exception that cut the
\* printing short (iterating a hits value that is no list).
display_sca_policies(data) ==
    LET header == << "\n" \o Rule, "SCA POLICIES (sca.cyberark.cloud)", Rule >>
        hits == GetDefault(data, "hits", JArr(<<>>))
    IN  IF hits.t # "arr"
        THEN [out |-> header, exc |-> Exc("TypeError", "hits")]
        ELSE [out |-> header \o ScaHitsLines(hits.a), exc |-> NoExc]

\* One pass of the loop body of display_sia_policies.
SiaPolicyLines(policy) ==
    LET metadata == GetDefault(policy, "metadata", JObj(EmptyMetadata))
    IN  IF metadata.t # "obj"
        THEN [out |-> <<>>, exc |-> Exc("AttributeError", "metadata")]
        ELSE LET md == metadata.d
                 first == << "\n  Name:        " \o Str(Get(md, "name")),
                             "  Description: " \o Str(Get(md, "description")) >>
                 status == GetDefault(md, "status", JObj(EmptyStatus))
             IN  IF status.t # "obj"
                 THEN [out |-> first, exc |-> Exc("AttributeError", "status")]
                 ELSE [out |-> first \o
                          << "  Status:      " \o Str(Get(status.d, "status")),
                             "  Policy ID:   " \o Str(Get(md, "policyId")) >>,
                       exc |-> NoExc]

RECURSIVE SiaResultsLines(_)
SiaResultsLines(results) ==
    IF results = <<>> THEN [out |-> <<>>, exc |-> NoExc]
    ELSE LET one == SiaPolicyLines(Head(results))
         IN  IF one.exc # NoExc THEN one
             ELSE LET rest == SiaResultsLines(Tail(results))
                  IN  [out |-> one.out \o rest.out, exc |-> rest.exc]

display_sia_policies(data) ==
    LET header == << "\n" \o Rule, "SIA POLICIES (uap.cyberark.cloud)", Rule >>
        results == GetDefault(data, "results", JArr(<<>>))
    IN  IF results.t # "arr"
        THEN [out |-> header, exc |-> Exc("TypeError", "results")]
        ELSE LET body == SiaResultsLines(results.a)
             IN  [out |-> header \o body.out, exc |-> body.exc]

\* A variant of Summary: the SCA count is taken from the length of hits.
SummaryCounted(sca, sia) ==
    LET hits == GetDefault(sca, "hits", JArr(<<>>))
        sca_total == IF hits.t = "arr" THEN JInt(Len(hits.a)) ELSE JInt(0)
        sia_total == GetDefault(sia, "total", JInt(0))
    IN  IF sia_total.t # "int"
        THEN [out |-> << "\n" \o Rule >>, exc |-> Exc("TypeError", "total")]
        ELSE [out |-> << "\n" \o Rule,
                         "TOTAL: " \o Str(sca_total) \o " SCA + " \o Str(sia_total)
                            \o " SIA = " \o IntStr(sca_total.v + sia_total.v) \o " policies",
                         Rule >>,
              exc |-> NoExc]

\* The summary of main(): the two declared totals and their sum.
Summary(sca, sia) ==
    LET sca_total == GetDefault(sca, "total", JInt(0))
        sia_total == GetDefault(sia, "total", JInt(0))
    IN  IF sca_total.t # "int" \/ sia_total.t # "int"
        THEN [out |-> << "\n" \o Rule >>, exc |-> Exc("TypeError", "total")]
        ELSE [out |-> << "\n" \o Rule,
                         "TOTAL: " \o Str(sca_total) \o " SCA + " \o Str(sia_total)
                            \o " SIA = " \o IntStr(sca_total.v + sia_total.v) \o " policies",
                         Rule >>,
              exc |-> NoExc]

\* ------------------------------------------------------ the outside world
\* AWS_SECRET_NAME as os.getenv returns it: None when unset.
SecretNames == { None, JStr(""), JStr("cyberark/api") }

\* AWS_REGION with its default "us-east-2".
Regions == { "us-east-2", "eu-west-1" }

Tokens == { "tokA", "tokB" }

SecretFields == { "identity_tenant_id", "client_id", "client_secret", "subdomain" }

SecretValue(field) ==
    CASE field = "identity_tenant_id" -> JStr("abc1234")
      [] field = "client_id" -> JStr("svc@example")
      [] field = "client_secret" -> JStr("s3cret")
      [] OTHER -> JStr("acme")

\* The JSON objects a secret may hold: any subset of the four fields.
SecretPayloads ==
    { [f \in SecretFields |-> IF f \in present THEN SecretValue(f) ELSE Absent] :
        present \in SUBSET SecretFields }

\* What get_secret_value answers: an error of the store, or a SecretString.
SecretStoreAnswers ==
    { [error |-> TRUE, body |-> NotJson], [error |-> FALSE, body |-> NotJson] }
      \cup { [error |-> FALSE, body |-> JObj(p)] : p \in SecretPayloads }

TokenBody(t) == JObj([access_token |-> t])

TokenResponses ==
    { [status |-> 200, body |-> TokenBody(JStr(t))] : t \in Tokens }
      \cup { [status |-> 200, body |-> TokenBody(Absent)],
             [status |-> 200, body |-> NotJson],
             [status |-> 300, body |-> TokenBody(JStr("tokA"))],
             [status |-> 300, body |-> NotJson],
             [status |-> 401, body |-> NotJson],
             [status |-> 500, body |-> NotJson] }

ScaExample ==
    [hits |-> JArr(<< [name |-> JStr("A"), description |-> JStr("d"),
                       status |-> JInt(1), policyId |-> JStr("p1")] >>),
     total |-> JInt(1)]

ScaFlowBodies ==
    { ScaExample,
      [hits |-> Absent, total |-> Absent],
      [hits |-> None, total |-> JInt(0)] }

SiaExample == [results |-> JArr(<<>>), total |-> JInt(0)]

SiaFlowBodies ==
    { SiaExample,
      [results |-> JArr(<< [metadata |-> JObj(
            [name |-> JStr("B"), description |-> Absent,
             status |-> JObj([status |-> JStr("Enabled")]),
             policyId |-> JStr("s1")])] >>),
       total |-> JInt(2)],
      [results |-> JArr(<< [metadata |-> Absent] >>), total |-> None] }

\* The answers of a policy endpoint: a body under a 2xx status, a body under
\* a 3xx status that no redirect follows, unparsable text, 4xx and 5xx.
PolicyResponses(bodies, example) ==
    { [status |-> 200, body |-> JObj(b)] : b \in bodies }
      \cup { [status |-> 200, body |-> NotJson],
             [status |-> 300, body |-> JObj(example)],
             [status |-> 401, body |-> NotJson],
             [status |-> 500, body |-> NotJson] }

NoResp == [t |-> "noresp"]
NoResps == [secret |-> NoResp, token |-> NoResp, sca |-> NoResp, sia |-> NoResp]

\* ------------------------------------------------------------------ state
VARIABLES
    run,          \* the number of this start of the script
    pc,           \* the statement group of main() that runs next
    raised,       \* the unhandled exception that ended the run, or NoExc
    SECRET_NAME,  \* module global, read from the environment at import
    REGION,       \* module global, read from the environment at import
    secret,       \* local of main()
    token,        \* local of main()
    sca_data,     \* local of main()
    sia_data,     \* local of main()
    out,          \* the lines printed by this run
    calls,        \* the external calls made by this run, in order
    resp,         \* the answer each endpoint gave this run
    prev          \* what the run before this one left behind

vars == << run, pc, raised, SECRET_NAME, REGION, secret, token, sca_data, sia_data,
           out, calls, resp, prev >>

\* ------------------------------------------------------------- the script
\* A variant of Falsy: `SECRET_NAME is None`.
FalsyNoneOnly(v) == v = None

\* `not SECRET_NAME`
Falsy(v) == v = None \/ v = JStr("")

\* Response.raise_for_status(): HTTPError for a 4xx or a 5xx status.
raise_for_status(status) == 400 <= status /\ status < 600

Call(ep, url, auth) == [ep |-> ep, url |-> url, auth |-> auth]

\* A variant of get_secret: the payload is checked for subdomain on loading.
get_secret_validating(name, region, answer) ==
    LET call == Call("secretsmanager", region \o ":" \o Str(name), "")
    IN  IF answer.error
        THEN [exc |-> Exc("ClientError", "get_secret_value"), value |-> Unbound, calls |-> <<call>>]
        ELSE IF answer.body = NotJson
        THEN [exc |-> Exc("JSONDecodeError", "SecretString"), value |-> Unbound, calls |-> <<call>>]
        ELSE IF answer.body.d["subdomain"] = Absent
        THEN [exc |-> Exc("KeyError", "subdomain"), value |-> Unbound, calls |-> <<call>>]
        ELSE [exc |-> NoExc, value |-> answer.body.d, calls |-> <<call>>]

\* get_secret(): the call to the store and json.loads of the SecretString.
get_secret(name, region, answer) ==
    LET call == Call("secretsmanager", region \o ":" \o Str(name), "")
    IN  IF answer.error
        THEN [exc |-> Exc("ClientError", "get_secret_value"), value |-> Unbound, calls |-> <<call>>]
        ELSE IF answer.body = NotJson
        THEN [exc |-> Exc("JSONDecodeError", "SecretString"), value |-> Unbound, calls |-> <<call>>]
        ELSE [exc |-> NoExc, value |-> answer.body.d, calls |-> <<call>>]

\* A variant of get_token: a token left by the run before is used again.
get_token_cached(sec, response) ==
    IF prev.token # Unbound
    THEN [exc |-> NoExc, value |-> prev.token, calls |-> <<>>]
    ELSE LET call == Call("token",
                          "https://" \o Str(sec["identity_tenant_id"])
                              \o ".id.cyberark.cloud/oauth2/platformtoken", "")
         IN  IF raise_for_status(response.status) \/ response.body = NotJson
             THEN [exc |-> Exc("HTTPError", "token"), value |-> Unbound, calls |-> <<call>>]
             ELSE IF response.body.d["access_token"] = Absent
             THEN [exc |-> Exc("KeyError", "access_token"), value |-> Unbound, calls |-> <<call>>]
             ELSE [exc |-> NoExc, value |-> response.body.d["access_token"], calls |-> <<call>>]

\* get_token(secret): the fields are read before the POST is made.
get_token(sec, response) ==
    IF sec["identity_tenant_id"] = Absent
    THEN [exc |-> Exc("KeyError", "identity_tenant_id"), value |-> Unbound, calls |-> <<>>]
    ELSE IF sec["client_id"] = Absent
    THEN [exc |-> Exc("KeyError", "client_id"), value |-> Unbound, calls |-> <<>>]
    ELSE IF sec["client_secret"] = Absent
    THEN [exc |-> Exc("KeyError", "client_secret"), value |-> Unbound, calls |-> <<>>]
    ELSE LET call == Call("token",
                          "https://" \o Str(sec["identity_tenant_id"])
                              \o ".id.cyberark.cloud/oauth2/platformtoken", "")
         IN  IF raise_for_status(response.status)
             THEN [exc |-> Exc("HTTPError", "token"), value |-> Unbound, calls |-> <<call>>]
             ELSE IF response.body = NotJson
             THEN [exc |-> Exc("JSONDecodeError", "token"), value |-> Unbound, calls |-> <<call>>]
             ELSE IF response.body.d["access_token"] = Absent
             THEN [exc |-> Exc("KeyError", "access_token"), value |-> Unbound, calls |-> <<call>>]
             ELSE [exc |-> NoExc, value |-> response.body.d["access_token"], calls |-> <<call>>]

\* get_sca_policies / get_sia_policies: they differ in the host only.
get_policies(ep, subdomain, tok, response) ==
    LET call == Call(ep, "https://" \o Str(subdomain) \o "." \o ep
                            \o ".cyberark.cloud/api/policies",
                     "Bearer " \o Str(tok))
    IN  IF raise_for_status(response.status)
        THEN [exc |-> Exc("HTTPError", ep), value |-> Unbound, calls |-> <<call>>]
        ELSE IF response.body = NotJson
        THEN [exc |-> Exc("JSONDecodeError", ep), value |-> Unbound, calls |-> <<call>>]
        ELSE [exc |-> NoExc, value |-> response.body.d, calls |-> <<call>>]

get_sca_policies(subdomain, tok, response) == get_policies("sca", subdomain, tok, response)

\* A variant of get_sia_policies: a failed request yields an empty result.
get_sia_policies_swallow(subdomain, tok, response) ==
    LET r == get_policies("uap", subdomain, tok, response)
    IN  IF r.exc = NoExc THEN r
        ELSE [exc |-> NoExc, value |-> [results |-> Absent, total |-> Absent],
              calls |-> r.calls]

get_sia_policies(subdomain, tok, response) == get_policies("uap", subdomain, tok, response)

\* A variant of TokenAcquiredLine: the token is printed.
TokenAcquiredLineLeaky(tok) == "      " \o Tick \o " Bearer token acquired: " \o Str(tok)

\* main(), line 108: the token is in scope and is not printed.
TokenAcquiredLine(tok) == "      " \o Tick \o " Bearer token acquired"

\* ------------------------------------------------------------- one run
NoPrev ==
    [run |-> 0, SECRET_NAME |-> Unbound, resp |-> NoResps, out |-> <<>>,
     token |-> Unbound, calls |-> <<>>, pc |-> "start", raised |-> NoExc]

\* A newly started process: the globals come from the environment.
Init ==
    /\ run = 1
    /\ prev = NoPrev
    /\ pc = "start"
    /\ raised = NoExc
    /\ SECRET_NAME \in SecretNames
    /\ REGION \in Regions
    /\ secret = Unbound
    /\ token = Unbound
    /\ sca_data = Unbound
    /\ sia_data = Unbound
    /\ out = <<>>
    /\ calls = <<>>
    /\ resp = NoResps

Running == raised = NoExc /\ pc # "returned"

Terminated == ~Running

Banner ==
    << Rule, "CyberArk SCA & SIA Policy Retriever (AWS Secrets Manager)", Rule >>

ConfigError ==
    << "\n[ERROR] Missing AWS_SECRET_NAME environment variable.",
       "Set AWS_SECRET_NAME in your .env file or environment.",
       "See .env.example for reference." >>

\* main(), lines 89-98: the banner and the check of the configuration.
CheckConfig ==
    /\ Running /\ pc = "start"
    /\ IF Falsy(SECRET_NAME)
       THEN /\ out' = out \o Banner \o ConfigError
            /\ pc' = "returned"
       ELSE /\ out' = out \o Banner
            /\ pc' = "get_secret"
    /\ UNCHANGED << run, raised, SECRET_NAME, REGION, secret, token, sca_data,
                    sia_data, calls, resp, prev >>

\* main(), lines 101-103.
GetSecret ==
    /\ Running /\ pc = "get_secret"
    /\ \E answer \in SecretStoreAnswers :
         LET r == get_secret(SECRET_NAME, REGION, answer)
             line == "\n[1/4] Retrieving credentials from AWS Secrets Manager..."
         IN  /\ calls' = calls \o r.calls
             /\ resp' = [resp EXCEPT !.secret = answer]
             /\ raised' = r.exc
             /\ IF r.exc = NoExc
                THEN /\ secret' = r.value
                     /\ out' = out \o << line, "      " \o Tick \o " Credentials retrieved" >>
                     /\ pc' = "get_token"
                ELSE /\ out' = Append(out, line)
                     /\ UNCHANGED << secret, pc >>
    /\ UNCHANGED << run, SECRET_NAME, REGION, token, sca_data, sia_data, prev >>

\* main(), lines 106-108.
GetToken ==
    /\ Running /\ pc = "get_token"
    /\ \E response \in TokenResponses :
         LET r == get_token(secret, response)
             line == "[2/4] Authenticating via OAuth 2.0..."
         IN  /\ calls' = calls \o r.calls
             /\ resp' = IF r.calls = <<>> THEN resp ELSE [resp EXCEPT !.token = response]
             /\ raised' = r.exc
             /\ IF r.exc = NoExc
                THEN /\ token' = r.value
                     /\ out' = out \o << line, TokenAcquiredLine(r.value) >>
                     /\ pc' = "get_sca"
                ELSE /\ out' = Append(out, line)
                     /\ UNCHANGED << token, pc >>
    /\ UNCHANGED << run, SECRET_NAME, REGION, secret, sca_data, sia_data, prev >>

\* main(), lines 111-113: secret["subdomain"] is evaluated before the call.
GetSca ==
    /\ Running /\ pc = "get_sca"
    /\ LET line == "[3/4] Retrieving SCA policies..."
       IN  IF secret["subdomain"] = Absent
           THEN /\ raised' = Exc("KeyError", "subdomain")
                /\ out' = Append(out, line)
                /\ UNCHANGED << calls, resp, sca_data, pc >>
           ELSE \E response \in PolicyResponses(ScaFlowBodies, ScaExample) :
                  LET r == get_sca_policies(secret["subdomain"], token, response)
                  IN  /\ calls' = calls \o r.calls
                      /\ resp' = [resp EXCEPT !.sca = response]
                      /\ raised' = r.exc
                      /\ IF r.exc = NoExc
                         THEN /\ sca_data' = r.value
                              /\ out' = out \o << line, "      " \o Tick \o " Done" >>
                              /\ pc' = "get_sia"
                         ELSE /\ out' = Append(out, line)
                              /\ UNCHANGED << sca_data, pc >>
    /\ UNCHANGED << run, SECRET_NAME, REGION, secret, token, sia_data, prev >>

\* main(), lines 116-118.
GetSia ==
    /\ Running /\ pc = "get_sia"
    /\ LET line == "[4/4] Retrieving SIA policies..."
       IN  IF secret["subdomain"] = Absent
           THEN /\ raised' = Exc("KeyError", "subdomain")
                /\ out' = Append(out, line)
                /\ UNCHANGED << calls, resp, sia_data, pc >>
           ELSE \E response \in PolicyResponses(SiaFlowBodies, SiaExample) :
                  LET r == get_sia_policies(secret["subdomain"], token, response)
                  IN  /\ calls' = calls \o r.calls
                      /\ resp' = [resp EXCEPT !.sia = response]
                      /\ raised' = r.exc
                      /\ IF r.exc = NoExc
                         THEN /\ sia_data' = r.value
                              /\ out' = out \o << line, "      " \o Tick \o " Done" >>
                              /\ pc' = "display_sca"
                         ELSE /\ out' = Append(out, line)
                              /\ UNCHANGED << sia_data, pc >>
    /\ UNCHANGED << run, SECRET_NAME, REGION, secret, token, sca_data, prev >>

\* main(), line 121.
DisplaySca ==
    /\ Running /\ pc = "display_sca"
    /\ LET r == display_sca_policies(sca_data)
       IN  /\ out' = out \o r.out
           /\ raised' = r.exc
           /\ pc' = IF r.exc = NoExc THEN "display_sia" ELSE pc
    /\ UNCHANGED << run, SECRET_NAME, REGION, secret, token, sca_data, sia_data,
                    calls, resp, prev >>

\* main(), line 122.
DisplaySia ==
    /\ Running /\ pc = "display_sia"
    /\ LET r == display_sia_policies(sia_data)
       IN  /\ out' = out \o r.out
           /\ raised' = r.exc
           /\ pc' = IF r.exc = NoExc THEN "summary" ELSE pc
    /\ UNCHANGED << run, SECRET_NAME, REGION, secret, token, sca_data, sia_data,
                    calls, resp, prev >>

\* main(), lines 125-129.
PrintSummary ==
    /\ Running /\ pc = "summary"
    /\ LET r == Summary(sca_data, sia_data)
       IN  /\ out' = out \o r.out
           /\ raised' = r.exc
           /\ pc' = IF r.exc = NoExc THEN "returned" ELSE pc
    /\ UNCHANGED << run, SECRET_NAME, REGION, secret, token, sca_data, sia_data,
                    calls, resp, prev >>

\* The script is started again: a new process, nothing carried over.
NewRun ==
    /\ Terminated
    /\ run < MaxRuns
    /\ run' = run + 1
    /\ prev' = [run |-> run, SECRET_NAME |-> SECRET_NAME, resp |-> resp, out |-> out,
                token |-> token, calls |-> calls, pc |-> pc, raised |-> raised]
    /\ pc' = "start"
    /\ raised' = NoExc
    /\ SECRET_NAME' \in SecretNames
    /\ REGION' \in Regions
    /\ secret' = Unbound
    /\ token' = Unbound
    /\ sca_data' = Unbound
    /\ sia_data' = Unbound
    /\ out' = <<>>
    /\ calls' = <<>>
    /\ resp' = NoResps

Next ==
    \/ CheckConfig
    \/ GetSecret
    \/ GetToken
    \/ GetSca
    \/ GetSia
    \/ DisplaySca
    \/ DisplaySia
    \/ PrintSummary
    \/ NewRun

Spec == Init /\ [][Next]_vars

\* ------------------------------------------------ the reporter on its own
\* The reporter is entered with whatever the two endpoints answered.  The
\* bodies below vary every field the reporter reads: present, missing, null.
OptStr(s) == { Absent, JStr(s) }

SeqsUpTo(S, n) == UNION { [1..k -> S] : k \in 0..n }

ScaStatuses == { Absent, None, JStr("1") } \cup { JInt(n) : n \in 0..2 }

ScaRecords ==
    [name : OptStr("A"), description : OptStr("d"), status : ScaStatuses,
     policyId : OptStr("p1")]

Totals == { Absent, None } \cup { JInt(n) : n \in 0..MaxTotal }

ScaBodies ==
    [hits : { Absent, None } \cup { JArr(h) : h \in SeqsUpTo(ScaRecords, MaxHits) },
     total : Totals]

SiaStatuses ==
    { Absent, None, JObj([status |-> Absent]), JObj([status |-> JStr("Enabled")]) }

SiaMetadata ==
    [name : OptStr("B"), description : OptStr("e"), status : SiaStatuses,
     policyId : OptStr("s1")]

SiaRecords == [metadata : { Absent, None } \cup { JObj(m) : m \in SiaMetadata }]

SiaBodies ==
    [results : { Absent, None } \cup { JArr(r) : r \in SeqsUpTo(SiaRecords, MaxHits) },
     total : Totals]

FullSecret == [f \in SecretFields |-> SecretValue(f)]

\* main() just before line 121, both fetches having returned.
InitReport ==
    /\ run = 1
    /\ prev = NoPrev
    /\ pc = "display_sca"
    /\ raised = NoExc
    /\ SECRET_NAME = JStr("cyberark/api")
    /\ REGION = "us-east-2"
    /\ secret = FullSecret
    /\ token = JStr("tokA")
    /\ \/ sca_data \in ScaBodies /\ sia_data \in SiaFlowBodies
       \/ sca_data \in ScaFlowBodies /\ sia_data \in SiaBodies
    /\ resp = [secret |-> [error |-> FALSE, body |-> JObj(secret)],
               token |-> [status |-> 200, body |-> TokenBody(token)],
               sca |-> [status |-> 200, body |-> JObj(sca_data)],
               sia |-> [status |-> 200, body |-> JObj(sia_data)]]
    /\ calls = get_secret(SECRET_NAME, REGION, resp.secret).calls
                 \o get_token(secret, resp.token).calls
                 \o get_sca_policies(secret["subdomain"], token, resp.sca).calls
                 \o get_sia_policies(secret["subdomain"], token, resp.sia).calls
    /\ out = Banner \o
             << "\n[1/4] Retrieving credentials from AWS Secrets Manager...",
                "      " \o Tick \o " Credentials retrieved",
                "[2/4] Authenticating via OAuth 2.0...",
                TokenAcquiredLine(token),
                "[3/4] Retrieving SCA policies...",
                "      " \o Tick \o " Done",
                "[4/4] Retrieving SIA policies...",
                "      " \o Tick \o " Done" >>

NextReport ==
    \/ DisplaySca
    \/ DisplaySia
    \/ PrintSummary

SpecReport == InitReport /\ [][NextReport]_vars

\* -------------------------------------------------------------- properties
Called(ep) == \E i \in DOMAIN calls : calls[i].ep = ep

CountCalls(ep) == Cardinality({ i \in DOMAIN calls : calls[i].ep = ep })

StartsWith(line, prefix) ==
    Len(line) >= Len(prefix) /\ SubSeq(line, 1, Len(prefix)) = prefix

Contains(line, part) ==
    \E i \in 1..(Len(line) - Len(part) + 1) : SubSeq(line, i, i + Len(part) - 1) = part

\* A line of the report proper: a section title or the aggregate line.
ReportLine(line) ==
    \/ line = "SCA POLICIES (sca.cyberark.cloud)"
    \/ line = "SIA POLICIES (uap.cyberark.cloud)"
    \/ StartsWith(line, "TOTAL:")

\* The request was answered and the answer is neither an HTTP error nor
\* unparsable text.
Answered(r) == r # NoResp /\ ~(r.status \in 400..599) /\ r.body # NotJson

\* C1: with AWS_SECRET_NAME unset or empty the run prints the banner and the
\* configuration error, returns without an exception, and makes no external
\* call: no secret read, no token POST, no SCA GET, no SIA GET.
C1_NoSecretNameNoCalls ==
    (SECRET_NAME = None \/ SECRET_NAME = JStr("")) =>
        /\ calls = <<>>
        /\ resp = NoResps
        /\ raised = NoExc
        /\ pc \in { "start", "returned" }
        /\ pc = "returned" => out = Banner \o ConfigError

C1_Witness ==
    /\ SECRET_NAME = JStr("")
    /\ pc = "returned"
    /\ out = Banner \o ConfigError

\* C2: whenever the token POST was answered with a status outside 2xx, the
\* run has ended in get_token with an exception and neither the SCA GET nor
\* the SIA GET was issued.
C2_TokenNonSuccessAborts ==
    (resp.token # NoResp /\ resp.token.status \notin 200..299) =>
        /\ raised # NoExc
        /\ pc = "get_token"
        /\ ~Called("sca")
        /\ ~Called("uap")

\* C3: no partial report.  A section title or the TOTAL line is in the
\* output only if both fetches returned data; a run that raised in a fetch
\* step has printed none of them, whatever the SCA fetch had retrieved.
C3_NoPartialReport ==
    /\ (\E i \in DOMAIN out : ReportLine(out[i])) =>
           /\ sca_data # Unbound /\ Answered(resp.sca)
           /\ sia_data # Unbound /\ Answered(resp.sia)
    /\ (raised # NoExc /\ pc \in { "get_secret", "get_token", "get_sca", "get_sia" }) =>
           \A i \in DOMAIN out : ~ReportLine(out[i])
    /\ (\E i \in DOMAIN out : StartsWith(out[i], "TOTAL:")) =>
           pc = "returned" /\ raised = NoExc

C3_Witness ==
    /\ raised # NoExc
    /\ pc = "get_sia"
    /\ sca_data = ScaExample
    /\ \A i \in DOMAIN out : ~ReportLine(out[i])

\* The secret the store returned holds the three fields get_token reads and
\* lacks subdomain.
OnlySubdomainMissing ==
    /\ resp.secret # NoResp
    /\ ~resp.secret.error
    /\ resp.secret.body # NotJson
    /\ resp.secret.body.d["subdomain"] = Absent
    /\ \A f \in SecretFields \ { "subdomain" } : resp.secret.body.d[f] # Absent

\* C4: with a secret that lacks only subdomain, the missing field makes no
\* step before the SCA fetch fail: the secret load returns, the token
\* exchange runs (and fails only for reasons of its own), and once the SCA
\* step is reached the run ends there with KeyError 'subdomain', no GET
\* having been issued.
C4_MissingSubdomainAtFetch ==
    OnlySubdomainMissing =>
        /\ secret # Unbound
        /\ pc \in { "get_token", "get_sca" }
        /\ raised.arg = "subdomain" =>
               /\ raised = Exc("KeyError", "subdomain")
               /\ pc = "get_sca"
               /\ token # Unbound
               /\ Answered(resp.token)
        /\ (pc = "get_token" /\ raised # NoExc) => ~Answered(resp.token) \/
               resp.token.body.d["access_token"] = Absent
        /\ (pc = "get_sca" /\ Terminated) => raised = Exc("KeyError", "subdomain")
        /\ ~Called("sca") /\ ~Called("uap")

C4_Witness ==
    /\ OnlySubdomainMissing
    /\ raised = Exc("KeyError", "subdomain")
    /\ pc = "get_sca"
    /\ CountCalls("secretsmanager") = 1
    /\ CountCalls("token") = 1

\* The records of a response that has been displayed in full.
HitsOf(data) == IF data["hits"] = Absent THEN <<>> ELSE data["hits"].a

ResultsOf(data) == IF data["results"] = Absent THEN <<>> ELSE data["results"].a

\* Where a section title stands in the output.
TitleAt(title) == CHOOSE i \in DOMAIN out : out[i] = title

\* The j-th line (1..4) of record k of the section with that title.
RecordLine(title, k, j) == out[TitleAt(title) + 1 + 4 * (k - 1) + j]

ScaShown == pc \in { "display_sia", "summary", "returned" }

SiaShown == pc \in { "summary", "returned" }

\* C5: every SCA record is shown as "Active" exactly when its status is the
\* number 1, and as "Inactive" for 0, 2, the string "1", null and a missing
\* status; the response with one status-1 record and total 1, next to the
\* empty SIA result with total 0, ends in "TOTAL: 1 SCA + 0 SIA = 1 policies".
C5_ScaStatusRendering ==
    /\ ScaShown =>
           \A k \in DOMAIN HitsOf(sca_data) :
               RecordLine("SCA POLICIES (sca.cyberark.cloud)", k, 3) =
                   IF HitsOf(sca_data)[k]["status"] = JInt(1)
                   THEN "  Status:      Active"
                   ELSE "  Status:      Inactive"
    /\ (pc = "returned" /\ sca_data = ScaExample /\ sia_data = SiaExample) =>
           out[Len(out) - 1] = "TOTAL: 1 SCA + 0 SIA = 1 policies"

C5_Witness ==
    /\ pc = "returned"
    /\ sca_data = ScaExample
    /\ sia_data = SiaExample
    /\ RecordLine("SCA POLICIES (sca.cyberark.cloud)", 1, 3) = "  Status:      Active"

\* The total a response declares, 0 when it declares none.
Declared(data) == IF data["total"] = Absent THEN 0 ELSE data["total"].v

\* C6: the aggregate line is TOTAL: <sca_total> SCA + <sia_total> SIA = <sum>
\* with the totals the responses declare, 0 for a response without a total
\* field, whatever the number of records in hits and results.
C6_TotalsAsDeclared ==
    pc = "returned" =>
        /\ sca_data["total"] # None
        /\ sia_data["total"] # None
        /\ out[Len(out) - 1] =
               "TOTAL: " \o IntStr(Declared(sca_data)) \o " SCA + "
                   \o IntStr(Declared(sia_data)) \o " SIA = "
                   \o IntStr(Declared(sca_data) + Declared(sia_data)) \o " policies"

C6_Witness ==
    /\ pc = "returned"
    /\ sca_data["total"] = Absent
    /\ Len(HitsOf(sca_data)) = 1
    /\ sia_data["total"] = JInt(2)
    /\ out[Len(out) - 1] = "TOTAL: 0 SCA + 2 SIA = 2 policies"

\* No container the reporter walks is null: fields are present or missing.
ScaFieldsOnlyMissing == sca_data["hits"] # None

SiaFieldsOnlyMissing ==
    /\ sia_data["results"] # None
    /\ sia_data["results"] # Absent =>
           \A k \in DOMAIN sia_data["results"].a :
               LET metadata == sia_data["results"].a[k]["metadata"]
               IN  /\ metadata # None
                   /\ metadata # Absent => metadata.d["status"] # None

MetadataOf(record) ==
    IF record["metadata"] = Absent THEN EmptyMetadata ELSE record["metadata"].d

\* C7: a response whose fields are present or missing (hits / results,
\* metadata, the status container, name, description, status, policyId)
\* never makes display_sca_policies or display_sia_policies raise, and each
\* missing field is shown as None.
C7_LenientFormatting ==
    /\ ScaFieldsOnlyMissing => ~(pc = "display_sca" /\ raised # NoExc)
    /\ SiaFieldsOnlyMissing => ~(pc = "display_sia" /\ raised # NoExc)
    /\ ScaShown =>
           \A k \in DOMAIN HitsOf(sca_data) :
               LET policy == HitsOf(sca_data)[k]
                   title == "SCA POLICIES (sca.cyberark.cloud)"
               IN  /\ policy["name"] = Absent =>
                          RecordLine(title, k, 1) = "\n  Name:        None"
                   /\ policy["description"] = Absent =>
                          RecordLine(title, k, 2) = "  Description: None"
                   /\ policy["policyId"] = Absent =>
                          RecordLine(title, k, 4) = "  Policy ID:   None"
    /\ SiaShown =>
           \A k \in DOMAIN ResultsOf(sia_data) :
               LET md == MetadataOf(ResultsOf(sia_data)[k])
                   title == "SIA POLICIES (uap.cyberark.cloud)"
               IN  /\ md["name"] = Absent =>
                          RecordLine(title, k, 1) = "\n  Name:        None"
                   /\ md["description"] = Absent =>
                          RecordLine(title, k, 2) = "  Description: None"
                   /\ (md["status"] = Absent \/ md["status"].d["status"] = Absent) =>
                          RecordLine(title, k, 3) = "  Status:      None"
                   /\ md["policyId"] = Absent =>
                          RecordLine(title, k, 4) = "  Policy ID:   None"

C7_Witness ==
    /\ SiaShown
    /\ raised = NoExc
    /\ sca_data["hits"] = Absent
    /\ Len(ResultsOf(sia_data)) = 1
    /\ ResultsOf(sia_data)[1]["metadata"] = Absent
    /\ RecordLine("SIA POLICIES (uap.cyberark.cloud)", 1, 3) = "  Status:      None"

\* A token answer without the token it carries.
TokenAnswerShape(r) ==
    IF r = NoResp THEN [status |-> 0, issued |-> FALSE]
    ELSE [status |-> r.status,
          issued |-> r.body # NotJson /\ r.body.d["access_token"] # Absent]

\* This run met the configuration, the secret and the endpoint answers the
\* run before it met; the tokens issued may differ.
SameInputsAsBefore ==
    /\ prev.run >= 1
    /\ SECRET_NAME = prev.SECRET_NAME
    /\ resp.secret = prev.resp.secret
    /\ TokenAnswerShape(resp.token) = TokenAnswerShape(prev.resp.token)
    /\ resp.sca = prev.resp.sca
    /\ resp.sia = prev.resp.sia

\* C8: a run that ended after meeting the same secret and the same endpoint
\* answers as the run before it has printed the same lines, also when the
\* two runs were issued different tokens; and no printed line holds the
\* token of the run.
C8_SameInputsSameOutput ==
    /\ (Terminated /\ SameInputsAsBefore) => out = prev.out
    /\ token # Unbound => \A i \in DOMAIN out : ~Contains(out[i], Str(token))

C8_Witness ==
    /\ pc = "returned"
    /\ SameInputsAsBefore
    /\ token # Unbound /\ prev.token # Unbound /\ token # prev.token
    /\ sca_data = ScaExample
    /\ out = prev.out
    /\ \E i \in DOMAIN out : StartsWith(out[i], "TOTAL:")

\* C9: in every run each endpoint is called at most once, also after a
\* failure, and both GETs present the token that this run's one token
\* exchange returned.
C9_SingleUseToken ==
    /\ \A ep \in { "secretsmanager", "token", "sca", "uap" } : CountCalls(ep) <= 1
    /\ \A i \in DOMAIN calls :
           calls[i].ep \in { "sca", "uap" } =>
               /\ CountCalls("token") = 1
               /\ TokenAnswerShape(resp.token).issued
               /\ calls[i].auth = "Bearer " \o Str(resp.token.body.d["access_token"])

C9_Witness ==
    /\ run = 2
    /\ Called("sca") /\ Called("uap")
    /\ prev.token # Unbound
    /\ token # prev.token
    /\ Terminated

IsPrefix(a, b) == Len(a) <= Len(b) /\ SubSeq(b, 1, Len(a)) = a

\* C10: the external calls of a run are made in the order secret read, token
\* POST, SCA GET, SIA GET; the SIA GET is not issued when the SCA GET was
\* answered with a status outside 2xx; report lines are printed only after
\* the SIA fetch returned.
C10_FixedOrderHaltOnFailure ==
    /\ IsPrefix([i \in DOMAIN calls |-> calls[i].ep],
                << "secretsmanager", "token", "sca", "uap" >>)
    /\ (resp.sca # NoResp /\ resp.sca.status \notin 200..299) => ~Called("uap")
    /\ (\E i \in DOMAIN out : ReportLine(out[i])) => sia_data # Unbound
====
